---- MODULE Spec2Model ----
(***************************************************************************)
(* License issuance engine of wujp123/jhm-new: the HTTP server             *)
(* (generateLicenseCore, handleAPI, saveData) and the keygen command line  *)
(* tool (handleIssueLicense).                                              *)
(*                                                                         *)
(* Strings and byte slices are sequences of byte values 0..255.  JSON,     *)
(* base64, PEM and the date layout are computed byte by byte as the Go     *)
(* standard library computes them.  SHA-256, RSA and DEFLATE are ideal:    *)
(* the digest of a message is the message itself behind a tag, a signature *)
(* names the signing key and carries the digest, and the compressed form   *)
(* of a buffer is the buffer between the gzip magic and a length trailer.  *)
(***************************************************************************)
EXTENDS Integers, Sequences, FiniteSets, TLC

(***************************************************************************)
(* Bytes and literals                                                      *)
(***************************************************************************)

\* printable ASCII, code 32 (space) first
Ascii ==
  << " ", "!", "dquote", "#", "$", "%", "&", "'", "lparen", "rparen", "star", "+", ",", "-", ".", "/",
     "0", "1", "2", "3", "4", "5", "6", "7", "8", "9", ":", ";", "<", "=", ">", "?",
     "@", "A", "B", "C", "D", "E", "F", "G", "H", "I", "J", "K", "L", "M", "N", "O",
     "P", "Q", "R", "S", "T", "U", "V", "W", "X", "Y", "Z", "[", "bslash", "]", "^", "_",
     "btick", "a", "b", "c", "d", "e", "f", "g", "h", "i", "j", "k", "l", "m", "n", "o",
     "p", "q", "r", "s", "t", "u", "v", "w", "x", "y", "z", "{", "|", "}", "~" >>

Ord(c) == 31 + CHOOSE i \in DOMAIN Ascii : Ascii[i] = c

\* the bytes of a literal written as a tuple of one-character strings
B(cs) == [i \in 1..Len(cs) |-> Ord(cs[i])]

NL == 10
CR == 13
TAB == 9
SP == 32
DASH == 45
COLON == 58
EQ == 61

Min(a, b) == IF a < b THEN a ELSE b

Slice(s, i, j) == IF j < i THEN << >> ELSE SubSeq(s, i, j)

\* s[i:] with i a Go index (0-based)
From(s, i) == Slice(s, i + 1, Len(s))

\* s[:i] with i a Go index (0-based)
Upto(s, i) == Slice(s, 1, i)

HasPrefix(s, p) == Len(s) >= Len(p) /\ SubSeq(s, 1, Len(p)) = p

HasSuffix(s, p) == Len(s) >= Len(p) /\ SubSeq(s, Len(s) - Len(p) + 1, Len(s)) = p

\* bytes.Index: Go index of the first occurrence of p in s, -1 if none
Index(s, p) ==
  LET hits == {i \in 0..(Len(s) - Len(p)) : SubSeq(s, i + 1, i + Len(p)) = p}
  IN IF hits = {} THEN -1 ELSE CHOOSE i \in hits : \A j \in hits : i <= j

(***************************************************************************)
(* encoding/base64, StdEncoding                                            *)
(***************************************************************************)

B64Alphabet ==
  [i \in 1..64 |-> IF i <= 26 THEN 64 + i
                   ELSE IF i <= 52 THEN 70 + i
                   ELSE IF i <= 62 THEN i - 5
                   ELSE IF i = 63 THEN 43 ELSE 47]

IsB64Char(c) ==
  \/ c \in 65..90
  \/ c \in 97..122
  \/ c \in 48..57
  \/ c = 43
  \/ c = 47

B64Val(c) ==
  IF c \in 65..90 THEN c - 65
  ELSE IF c \in 97..122 THEN c - 71
  ELSE IF c \in 48..57 THEN c + 4
  ELSE IF c = 43 THEN 62 ELSE 63

\* base64.StdEncoding.EncodeToString
EncodeToString(s) ==
  LET n == Len(s)
      byte(i) == IF i <= n THEN s[i] ELSE 0
      sextet(g, j) ==
        LET b1 == byte(3 * g + 1)
            b2 == byte(3 * g + 2)
            b3 == byte(3 * g + 3)
        IN CASE j = 0 -> b1 \div 4
             [] j = 1 -> (b1 % 4) * 16 + (b2 \div 16)
             [] j = 2 -> (b2 % 16) * 4 + (b3 \div 64)
             [] OTHER -> b3 % 64
      out(k) ==
        LET g == (k - 1) \div 4
            j == (k - 1) % 4
        IN IF (j = 2 /\ 3 * g + 2 > n) \/ (j = 3 /\ 3 * g + 3 > n)
           THEN EQ
           ELSE B64Alphabet[sextet(g, j) + 1]
  IN [k \in 1..(4 * ((n + 2) \div 3)) |-> out(k)]

NotNewline(c) == c # NL /\ c # CR

\* base64.StdEncoding.DecodeString: \r and \n are skipped, every other byte
\* outside the alphabet and every malformed padding is an error
DecodeString(s) ==
  LET c == SelectSeq(s, NotNewline)
      n == Len(c)
      q == n \div 4
      quadOk(g) ==
        LET c1 == c[4 * g + 1]
            c2 == c[4 * g + 2]
            c3 == c[4 * g + 3]
            c4 == c[4 * g + 4]
        IN /\ IsB64Char(c1)
           /\ IsB64Char(c2)
           /\ IF g < q - 1
              THEN IsB64Char(c3) /\ IsB64Char(c4)
              ELSE \/ IsB64Char(c3) /\ IsB64Char(c4)
                   \/ IsB64Char(c3) /\ c4 = EQ
                   \/ c3 = EQ /\ c4 = EQ
      pad == IF n = 0 THEN 0
             ELSE IF c[n - 1] = EQ THEN 2
             ELSE IF c[n] = EQ THEN 1 ELSE 0
      v(i) == IF c[i] = EQ THEN 0 ELSE B64Val(c[i])
      out(k) ==
        LET g == (k - 1) \div 3
            j == (k - 1) % 3
        IN CASE j = 0 -> v(4 * g + 1) * 4 + (v(4 * g + 2) \div 16)
             [] j = 1 -> (v(4 * g + 2) % 16) * 16 + (v(4 * g + 3) \div 4)
             [] OTHER -> (v(4 * g + 3) % 4) * 64 + v(4 * g + 4)
  IN IF n % 4 # 0 \/ \E g \in 0..(q - 1) : ~quadOk(g)
     THEN [ok |-> FALSE, bytes |-> << >>]
     ELSE [ok |-> TRUE, bytes |-> [k \in 1..(3 * q - pad) |-> out(k)]]

(***************************************************************************)
(* compress/gzip, crypto/sha256, crypto/rsa (ideal)                        *)
(***************************************************************************)

GzipMagic == <<31, 139>>

\* gzip.NewWriter(&buf); Write(p); Close(): the bytes left in buf
Gzip(p) == GzipMagic \o p \o <<Len(p) % 256>>

Gunzip(z) ==
  IF /\ Len(z) >= 3
     /\ HasPrefix(z, GzipMagic)
     /\ z[Len(z)] = (Len(z) - 3) % 256
  THEN [ok |-> TRUE, bytes |-> Slice(z, 3, Len(z) - 1)]
  ELSE [ok |-> FALSE, bytes |-> << >>]

\* sha256.New(); Write(m); Sum(nil)
Sha256(m) == <<Len(m) % 256>> \o m

\* smallest modulus, in bytes, that holds a PKCS#1 v1.5 SHA-256 DigestInfo
MinSignBytes == 62

\* rsa.SignPKCS1v15(rand.Reader, priv, crypto.SHA256, hashed)
SignPKCS1v15(priv, hashed) ==
  IF priv.size < MinSignBytes
  THEN [ok |-> FALSE, sig |-> << >>]
  ELSE [ok |-> TRUE, sig |-> <<priv.id>> \o hashed]

\* rsa.VerifyPKCS1v15(pub, crypto.SHA256, hashed, sig), pub the public half of key id
VerifyPKCS1v15(id, hashed, sig) ==
  Len(sig) >= 1 /\ sig[1] = id /\ Tail(sig) = hashed

(***************************************************************************)
(* unicode/utf8 and encoding/json                                          *)
(***************************************************************************)

IsCont(s, i, lo, hi) == Len(s) >= i /\ s[i] >= lo /\ s[i] <= hi

\* utf8.DecodeRune: the width of the well-formed sequence that starts s, 0 if
\* s starts with a byte that is no well-formed sequence (RuneError, size 1)
RuneWidth(s) ==
  LET c == s[1]
  IN IF c < 128 THEN 1
     ELSE IF c \in 194..223
       THEN IF IsCont(s, 2, 128, 191) THEN 2 ELSE 0
     ELSE IF c \in 224..239
       THEN IF /\ IsCont(s, 2, IF c = 224 THEN 160 ELSE 128, IF c = 237 THEN 159 ELSE 191)
               /\ IsCont(s, 3, 128, 191)
            THEN 3 ELSE 0
     ELSE IF c \in 240..244
       THEN IF /\ IsCont(s, 2, IF c = 240 THEN 144 ELSE 128, IF c = 244 THEN 143 ELSE 191)
               /\ IsCont(s, 3, 128, 191)
               /\ IsCont(s, 4, 128, 191)
            THEN 4 ELSE 0
     ELSE 0

\* utf8.EncodeRune for a code point of the basic plane
EncodeRune(cp) ==
  IF cp < 128 THEN <<cp>>
  ELSE IF cp < 2048 THEN <<192 + (cp \div 64), 128 + (cp % 64)>>
  ELSE <<224 + (cp \div 4096), 128 + ((cp \div 64) % 64), 128 + (cp % 64)>>

ReplacementRune == EncodeRune(65533)

HexDigit(v) == IF v < 10 THEN 48 + v ELSE 87 + v

IsHex(c) == c \in 48..57 \/ c \in 97..102 \/ c \in 65..70

HexVal(c) == IF c \in 48..57 THEN c - 48 ELSE IF c \in 97..102 THEN c - 87 ELSE c - 55

EscU(cp) ==
  <<92, 117, HexDigit(cp \div 4096), HexDigit((cp \div 256) % 16),
    HexDigit((cp \div 16) % 16), HexDigit(cp % 16)>>

\* the position before the first element of s that is in stops, Len(s) if none is
RunBefore(s, stops) ==
  IF stops = {} THEN Len(s) ELSE (CHOOSE i \in stops : \A j \in stops : i <= j) - 1

\* encoding/json htmlSafeSet
HtmlSafe(c) == c \in 32..127 /\ c \notin {34, 92, 60, 62, 38}

RECURSIVE EscapeString(_)
\* appendString at a byte that is not copied as it is: s starts with that byte
EscapeRune(s) ==
  LET c == s[1]
      w == RuneWidth(s)
  IN IF c < 128
     THEN (CASE c = 34 -> <<92, 34>>
             [] c = 92 -> <<92, 92>>
             [] c = 8 -> <<92, 98>>
             [] c = 12 -> <<92, 102>>
             [] c = 10 -> <<92, 110>>
             [] c = 13 -> <<92, 114>>
             [] c = 9 -> <<92, 116>>
             [] OTHER -> EscU(c)) \o EscapeString(Tail(s))
     ELSE IF w = 0
       THEN EscU(65533) \o EscapeString(Tail(s))
     ELSE IF w = 3 /\ SubSeq(s, 1, 3) \in {<<226, 128, 168>>, <<226, 128, 169>>}
       THEN EscU(8232 + (s[3] - 168)) \o EscapeString(From(s, 3))
     ELSE SubSeq(s, 1, w) \o EscapeString(From(s, w))

EscapeAfter(s, n) == IF n = Len(s) THEN s ELSE Upto(s, n) \o EscapeRune(From(s, n))

\* encoding/json appendString with escapeHTML: the bytes between the quotes; runs
\* of html-safe bytes are copied, every other byte is handled on its own
EscapeString(s) == EscapeAfter(s, RunBefore(s, {i \in 1..Len(s) : ~HtmlSafe(s[i])}))

BadString == [ok |-> FALSE, val |-> << >>, rest |-> << >>]

RECURSIVE ScanString(_)
ScanMore(s, v, k) == [ok |-> ScanString(From(s, k)).ok, val |-> v \o ScanString(From(s, k)).val,
                      rest |-> ScanString(From(s, k)).rest]

\* unquote at a byte that is not copied as it is: s starts with that byte
ScanRune(s) ==
  LET c == s[1]
  IN IF c = 34 THEN [ok |-> TRUE, val |-> << >>, rest |-> Tail(s)]
     ELSE IF c < 32 THEN BadString
     ELSE IF c = 92
       THEN IF Len(s) < 2 THEN BadString
            ELSE LET e == s[2]
                 IN CASE e \in {34, 92, 47} -> ScanMore(s, <<e>>, 2)
                      [] e = 98 -> ScanMore(s, <<8>>, 2)
                      [] e = 102 -> ScanMore(s, <<12>>, 2)
                      [] e = 110 -> ScanMore(s, <<10>>, 2)
                      [] e = 114 -> ScanMore(s, <<13>>, 2)
                      [] e = 116 -> ScanMore(s, <<9>>, 2)
                      [] e = 117 ->
                           IF Len(s) >= 6 /\ \A i \in 3..6 : IsHex(s[i])
                           THEN ScanMore(s, EncodeRune(HexVal(s[3]) * 4096 + HexVal(s[4]) * 256
                                                       + HexVal(s[5]) * 16 + HexVal(s[6])), 6)
                           ELSE BadString
                      [] OTHER -> BadString
     ELSE IF RuneWidth(s) = 0 THEN ScanMore(s, ReplacementRune, 1)
     ELSE ScanMore(s, SubSeq(s, 1, RuneWidth(s)), RuneWidth(s))

ScanAfter(s, n) ==
  IF n = Len(s) THEN BadString
  ELSE [ok |-> ScanRune(From(s, n)).ok, val |-> Upto(s, n) \o ScanRune(From(s, n)).val,
        rest |-> ScanRune(From(s, n)).rest]

\* encoding/json unquote: s starts after the opening quote; the value, and the
\* input after the closing quote
ScanString(s) ==
  ScanAfter(s, RunBefore(s, {i \in 1..Len(s) : s[i] \in {34, 92} \/ s[i] < 32 \/ s[i] >= 128}))

RECURSIVE FormatNat(_)
FormatNat(n) == IF n < 10 THEN <<48 + n>> ELSE FormatNat(n \div 10) \o <<48 + (n % 10)>>

\* strconv.AppendInt(n, 10)
FormatInt(n) == IF n < 0 THEN <<DASH>> \o FormatNat(0 - n) ELSE FormatNat(n)

IsDigit(c) == c \in 48..57

RECURSIVE DigitsVal(_)
DigitsVal(d) == IF d = << >> THEN 0 ELSE 10 * DigitsVal(Upto(d, Len(d) - 1)) + (d[Len(d)] - 48)

\* the decimal integer that starts s: its value and the input after it
ScanInt(s) ==
  LET neg == s # << >> /\ s[1] = DASH
      t == IF neg THEN Tail(s) ELSE s
      stops == {i \in 1..Len(t) : ~IsDigit(t[i])}
      n == IF stops = {} THEN Len(t) ELSE (CHOOSE i \in stops : \A j \in stops : i <= j) - 1
      v == DigitsVal(Upto(t, n))
  IN [ok |-> n >= 1, val |-> IF neg THEN 0 - v ELSE v, rest |-> From(t, n)]

QUOTE == <<34>>

KeyMachineID == B(<<"{", "dquote", "m", "a", "c", "h", "i", "n", "e", "_", "i", "d", "dquote", ":">>)

KeyExpiryUTC == B(<<",", "dquote", "e", "x", "p", "i", "r", "y", "_", "u", "t", "c", "dquote", ":">>)

KeyData == B(<<"{", "dquote", "d", "a", "t", "a", "dquote", ":">>)

KeySignature == B(<<",", "dquote", "s", "i", "g", "n", "a", "t", "u", "r", "e", "dquote", ":">>)

\* json.Marshal(LicenseData{MachineID, ExpiryUTC}); the error is nil for this type
MarshalLicenseData(d) ==
  KeyMachineID \o QUOTE \o EscapeString(d.machine_id) \o QUOTE
    \o KeyExpiryUTC \o FormatInt(d.expiry_utc) \o <<125>>

\* json.Unmarshal into LicenseData
UnmarshalLicenseData(b) ==
  LET bad == [ok |-> FALSE, val |-> [machine_id |-> << >>, expiry_utc |-> 0]]
  IN IF ~HasPrefix(b, KeyMachineID \o QUOTE) THEN bad
     ELSE LET m == ScanString(From(b, Len(KeyMachineID) + 1))
          IN IF ~m.ok \/ ~HasPrefix(m.rest, KeyExpiryUTC) THEN bad
             ELSE LET e == ScanInt(From(m.rest, Len(KeyExpiryUTC)))
                  IN IF ~e.ok \/ e.rest # <<125>> THEN bad
                     ELSE [ok |-> TRUE, val |-> [machine_id |-> m.val, expiry_utc |-> e.val]]

\* json.Marshal(License{Data, Signature}); the error is nil for this type
MarshalLicense(l) ==
  KeyData \o QUOTE \o EscapeString(l.data) \o QUOTE
    \o KeySignature \o QUOTE \o EscapeString(l.signature) \o QUOTE \o <<125>>

\* json.Unmarshal into License
UnmarshalLicense(b) ==
  LET bad == [ok |-> FALSE, val |-> [data |-> << >>, signature |-> << >>]]
  IN IF ~HasPrefix(b, KeyData \o QUOTE) THEN bad
     ELSE LET d == ScanString(From(b, Len(KeyData) + 1))
          IN IF ~d.ok \/ ~HasPrefix(d.rest, KeySignature \o QUOTE) THEN bad
             ELSE LET g == ScanString(From(d.rest, Len(KeySignature) + 1))
                  IN IF ~g.ok \/ g.rest # <<125>> THEN bad
                     ELSE [ok |-> TRUE, val |-> [data |-> d.val, signature |-> g.val]]

(***************************************************************************)
(* package time: instants are Unix seconds, durations are seconds          *)
(***************************************************************************)

Hour == 3600

Second == 1

SecondsPerDay == 86400

\* the instants of the model lie between these two (Go: the first and the last
\* instant a zone interval can name)
MinInstant == -2147483647

MaxInstant == 2147483647

IsLeap(y) == y % 4 = 0 /\ (y % 100 # 0 \/ y % 400 = 0)

\* time.daysIn
DaysIn(m, y) ==
  IF m = 2 THEN (IF IsLeap(y) THEN 29 ELSE 28)
  ELSE IF m \in {4, 6, 9, 11} THEN 30 ELSE 31

\* days from 1970-01-01 to the civil date y-m-d, 1 <= m <= 12, any d
DaysFromCivil(y, m, d) ==
  LET yy == IF m <= 2 THEN y - 1 ELSE y
      era == yy \div 400
      yoe == yy - era * 400
      mp == IF m > 2 THEN m - 3 ELSE m + 9
      doy == ((153 * mp + 2) \div 5) + d - 1
      doe == yoe * 365 + (yoe \div 4) - (yoe \div 100) + doy
  IN era * 146097 + doe - 719468

\* the civil date of day number n
CivilFromDays(n) ==
  LET z == n + 719468
      era == z \div 146097
      doe == z - era * 146097
      yoe == (doe - (doe \div 1460) + (doe \div 36524) - (doe \div 146096)) \div 365
      doy == doe - (365 * yoe + (yoe \div 4) - (yoe \div 100))
      mp == (5 * doy + 2) \div 153
      d == doy - ((153 * mp + 2) \div 5) + 1
      m == IF mp < 10 THEN mp + 3 ELSE mp - 9
  IN [year |-> yoe + era * 400 + (IF m <= 2 THEN 1 ELSE 0), month |-> m, day |-> d]

\* time.FixedZone("CST", 8*3600)
FixedOffset == 8 * Hour

\* the two locations of the program: the zone loaded by name, the fixed zone
Shanghai == "Asia/Shanghai"

CST == "CST"

\* Asia/Shanghai in the time zone database: UTC+8, and UTC+9 (daylight time)
\* between these instants of 1986..1991
ShanghaiDST ==
  << <<515527200, 527014800>>, <<545162400, 558464400>>, <<577216800, 589914000>>,
     <<608666400, 621968400>>, <<640116000, 653418000>>, <<671565600, 684867600>> >>

\* Location.lookup: the offset in force at the instant, and the interval it holds for
Lookup(loc, unix) ==
  IF loc = CST
  THEN [offset |-> FixedOffset, start |-> MinInstant, end |-> MaxInstant]
  ELSE LET n == Len(ShanghaiDST)
           in == {i \in 1..n : ShanghaiDST[i][1] <= unix /\ unix < ShanghaiDST[i][2]}
           before == {i \in 1..n : ShanghaiDST[i][2] <= unix}
           after == {i \in 1..n : unix < ShanghaiDST[i][1]}
       IN IF in # {}
          THEN LET i == CHOOSE i \in in : TRUE
               IN [offset |-> FixedOffset + Hour, start |-> ShanghaiDST[i][1],
                   end |-> ShanghaiDST[i][2]]
          ELSE [offset |-> FixedOffset,
                start |-> IF before = {} THEN MinInstant
                          ELSE ShanghaiDST[CHOOSE i \in before : \A j \in before : j <= i][2],
                end |-> IF after = {} THEN MaxInstant
                        ELSE ShanghaiDST[CHOOSE i \in after : \A j \in after : i <= j][1]]

\* time.Date(year, month, day, 0, 0, sec, 0, loc): month and day are normalised,
\* the offset is the one in force at the resulting wall-clock time
Date(year, month, day, sec, loc) ==
  LET y == year + ((month - 1) \div 12)
      m == ((month - 1) % 12) + 1
      unix == DaysFromCivil(y, m, day) * SecondsPerDay + sec
      l == Lookup(loc, unix)
      utc == unix - l.offset
      offset == IF utc < l.start \/ utc >= l.end THEN Lookup(loc, utc).offset ELSE l.offset
  IN unix - offset

\* Time.In(loc) followed by Time.Date() and Time.Clock(): the wall clock of an instant
Civil(unix, loc) ==
  LET local == unix + Lookup(loc, unix).offset
      days == local \div SecondsPerDay
      c == CivilFromDays(days)
  IN [year |-> c.year, month |-> c.month, day |-> c.day, sec |-> local - days * SecondsPerDay]

\* Time.In(loc).AddDate(years, months, days)
AddDate(unix, years, months, days, loc) ==
  LET c == Civil(unix, loc)
  IN Date(c.year + years, c.month + months, c.day + days, c.sec, loc)

\* the decimal value of the digits s[i..j]
Num(s, i, j) == DigitsVal(SubSeq(s, i, j))

\* time.ParseInLocation("2006-01-02", s, loc)
ParseInLocation(s, loc) ==
  LET shape == /\ Len(s) = 10
               /\ \A i \in {1, 2, 3, 4, 6, 7, 9, 10} : IsDigit(s[i])
               /\ s[5] = DASH
               /\ s[8] = DASH
      y == Num(s, 1, 4)
      m == Num(s, 6, 7)
      d == Num(s, 9, 10)
  IN IF shape /\ m \in 1..12 /\ d >= 1 /\ d <= DaysIn(m, y)
     THEN [ok |-> TRUE, t |-> Date(y, m, d, 0, loc)]
     ELSE [ok |-> FALSE, t |-> 0]

Pad2(n) == <<48 + (n \div 10), 48 + (n % 10)>>

Pad4(n) == Pad2(n \div 100) \o Pad2(n % 100)

\* the text YYYY-MM-DD of a civil date, as the request form and the operator type it
DateText(y, m, d) == Pad4(y) \o <<DASH>> \o Pad2(m) \o <<DASH>> \o Pad2(d)

(***************************************************************************)
(* encoding/pem                                                            *)
(***************************************************************************)

pemStart == <<NL>> \o B(<<"-", "-", "-", "-", "-", "B", "E", "G", "I", "N", " ">>)

pemEnd == <<NL>> \o B(<<"-", "-", "-", "-", "-", "E", "N", "D", " ">>)

pemEndOfLine == B(<<"-", "-", "-", "-", "-">>)

TypePublic == B(<<"P", "U", "B", "L", "I", "C", " ", "K", "E", "Y">>)

TypeRSA == B(<<"R", "S", "A", " ", "P", "R", "I", "V", "A", "T", "E", " ", "K", "E", "Y">>)

RECURSIVE TrimRight(_)
\* bytes.TrimRight(s, " \t")
TrimRight(s) ==
  IF s # << >> /\ s[Len(s)] \in {SP, TAB} THEN TrimRight(Upto(s, Len(s) - 1)) ELSE s

\* pem.getLine: the first line without its end and trailing blanks, and what follows it
getLine(data) ==
  LET i == Index(data, <<NL>>)
  IN IF i < 0
     THEN [line |-> TrimRight(data), rest |-> << >>]
     ELSE [line |-> TrimRight(Upto(data, IF i > 0 /\ data[i] = CR THEN i - 1 ELSE i)),
           rest |-> From(data, i + 1)]

NotBlank(c) == c # SP /\ c # TAB

\* pem.removeSpacesAndTabs
removeSpacesAndTabs(s) == SelectSeq(s, NotBlank)

RECURSIVE SkipHeaders(_, _)
\* the header loop of pem.Decode: the input after the "key: value" lines and
\* their number; the loop gives up on empty input
SkipHeaders(rest, n) ==
  IF rest = << >> THEN [ok |-> FALSE, rest |-> rest, n |-> n]
  ELSE LET l == getLine(rest)
       IN IF Index(l.line, <<COLON>>) < 0
          THEN [ok |-> TRUE, rest |-> rest, n |-> n]
          ELSE SkipHeaders(l.rest, n + 1)

NoBlock == [ok |-> FALSE, Type |-> << >>, Bytes |-> << >>]

RECURSIVE Decode(_)

\* the block once its base64 body is decoded; a body that does not decode
\* sends the search on
DecodeBytes(typeLine, r3, body) ==
  IF ~body.ok THEN Decode(r3)
  ELSE [ok |-> TRUE, Type |-> typeLine, Bytes |-> body.bytes]

\* the END line must repeat the type, end in five dashes and be followed by blanks only
DecodeBody(typeLine, r3, endIndex, endTrailerAll, endTrailerLen) ==
  IF Len(endTrailerAll) < endTrailerLen THEN Decode(r3)
  ELSE IF \/ ~HasPrefix(Upto(endTrailerAll, endTrailerLen), typeLine)
          \/ ~HasSuffix(Upto(endTrailerAll, endTrailerLen), pemEndOfLine)
    THEN Decode(r3)
  ELSE IF getLine(From(endTrailerAll, endTrailerLen)).line # << >> THEN Decode(r3)
  ELSE DecodeBytes(typeLine, r3, DecodeString(removeSpacesAndTabs(Upto(r3, endIndex))))

DecodeTrailer(typeLine, r3, endIndex, endTrailerIndex) ==
  IF endIndex < 0 THEN Decode(r3)
  ELSE DecodeBody(typeLine, r3, endIndex, From(r3, endTrailerIndex),
                  Len(typeLine) + Len(pemEndOfLine))

\* the END line: at once when there are no headers, else after a newline
DecodeEnd(typeLine, r3, immediate) ==
  DecodeTrailer(typeLine, r3,
                IF immediate THEN 0 ELSE Index(r3, pemEnd),
                IF immediate THEN Len(pemEnd) - 1 ELSE Index(r3, pemEnd) + Len(pemEnd))

DecodeHeaders(typeLine, h) ==
  IF ~h.ok THEN NoBlock
  ELSE DecodeEnd(typeLine, h.rest, h.n = 0 /\ HasPrefix(h.rest, Tail(pemEnd)))

\* the BEGIN line must end in five dashes
DecodeTypeLine(tl) ==
  IF ~HasSuffix(tl.line, pemEndOfLine) THEN Decode(tl.rest)
  ELSE DecodeHeaders(Upto(tl.line, Len(tl.line) - Len(pemEndOfLine)), SkipHeaders(tl.rest, 0))

\* the input after the first "-----BEGIN " that starts the input or a line
AfterStart(rest) ==
  IF HasPrefix(rest, Tail(pemStart)) THEN From(rest, Len(pemStart) - 1)
  ELSE From(rest, Index(rest, pemStart) + Len(pemStart))

\* pem.Decode: the first well-formed block of the input, NoBlock (nil) if none
Decode(rest) ==
  IF ~(HasPrefix(rest, Tail(pemStart)) \/ Index(rest, pemStart) >= 0) THEN NoBlock
  ELSE DecodeTypeLine(getLine(AfterStart(rest)))

\* the line length of the PEM body
WrapLen == 64

RECURSIVE WrapLines(_)
\* the body lines of a PEM block: WrapLen characters and a newline each
WrapLines(s) ==
  IF s = << >> THEN << >>
  ELSE Upto(s, Min(WrapLen, Len(s))) \o <<NL>> \o WrapLines(From(s, Min(WrapLen, Len(s))))

\* pem.EncodeToMemory(&pem.Block{Type, Bytes})
EncodeToMemory(type, bytes) ==
  Tail(pemStart) \o type \o pemEndOfLine \o <<NL>>
    \o WrapLines(EncodeToString(bytes))
    \o Tail(pemEnd) \o type \o pemEndOfLine \o <<NL>>

(***************************************************************************)
(* crypto/x509: keys and their DER forms                                   *)
(***************************************************************************)

RSA == "rsa"

ECDSA == "ecdsa"

\* number of filler bytes of a key's DER form
DerFill == 46

\* number of concurrent requests
NumReq == 2

Reqs == 1..NumReq

\* rsa.GenerateKey(rand.Reader, 2048) in request r: a key pair no other call made
GenerateKey(r) == [id |-> 10 + r, alg |-> RSA, size |-> 256]

\* key pairs: id names the pair, size is the modulus length in bytes
Keys ==
  { [id |-> 1, alg |-> RSA, size |-> 256],
    [id |-> 2, alg |-> RSA, size |-> 32],
    [id |-> 3, alg |-> ECDSA, size |-> 32] } \cup {GenerateKey(r) : r \in Reqs}

KeyOf(i) == CHOOSE k \in Keys : k.id = i

Filler(k) == [i \in 1..DerFill |-> (37 * i + 11 * k.id) % 256]

\* x509.MarshalPKCS1PrivateKey
MarshalPKCS1PrivateKey(k) == <<48, 1, k.id, k.size % 256>> \o Filler(k)

\* the PKCS#8 form of a key (openssl pkcs8 -topk8)
MarshalPKCS8PrivateKey(k) ==
  <<48, 8, IF k.alg = RSA THEN 1 ELSE 2, k.id, k.size % 256>> \o Filler(k)

\* x509.MarshalPKIXPublicKey of the public half of k
MarshalPKIXPublicKey(k) == <<48, 9, k.id, k.size % 256>> \o Filler(k)

\* x509.ParsePKIXPublicKey: the pair the public key belongs to, 0 if der is none
ParsePKIXPublicKey(der) ==
  LET ks == {k \in Keys : MarshalPKIXPublicKey(k) = der}
  IN IF ks = {} THEN 0 ELSE (CHOOSE k \in ks : TRUE).id

NoKey == [ok |-> FALSE, key |-> [id |-> 0, alg |-> RSA, size |-> 0]]

\* x509.ParsePKCS1PrivateKey
ParsePKCS1PrivateKey(der) ==
  LET ks == {k \in Keys : k.alg = RSA /\ MarshalPKCS1PrivateKey(k) = der}
  IN IF ks = {} THEN NoKey ELSE [ok |-> TRUE, key |-> CHOOSE k \in ks : TRUE]

\* x509.ParsePKCS8PrivateKey
ParsePKCS8PrivateKey(der) ==
  LET ks == {k \in Keys : MarshalPKCS8PrivateKey(k) = der}
  IN IF ks = {} THEN NoKey ELSE [ok |-> TRUE, key |-> CHOOSE k \in ks : TRUE]

(***************************************************************************)
(* The steps of an issuance, as functions of what they read                *)
(***************************************************************************)

\* the key file as a call finds it: absent, present but unreadable, or readable
Absent == [state |-> "absent", bytes |-> << >>]

Unreadable == [state |-> "unreadable", bytes |-> << >>]

Readable(b) == [state |-> "readable", bytes |-> b]

\* LoadRawKey with the preference reversed: PRIVATE_KEY first, the file second
LoadRawKeyEnvFirst(f, e) ==
  IF e # << >> THEN [rawKey |-> e, source |-> "env"]
  ELSE IF f.state = "readable" THEN [rawKey |-> f.bytes, source |-> "file"]
  ELSE [rawKey |-> << >>, source |-> ""]

\* os.ReadFile("private.pem"), else os.Getenv("PRIVATE_KEY"): rawKey and source
LoadRawKey(f, e) ==
  IF f.state = "readable" THEN [rawKey |-> f.bytes, source |-> "file"]
  ELSE IF e # << >> THEN [rawKey |-> e, source |-> "env"]
  ELSE [rawKey |-> << >>, source |-> ""]

\* the characters strings.Map keeps: '-', letters, digits, '+', '/', '='
KeepKeyChar(c) == c = DASH \/ IsB64Char(c) \/ c = EQ

RECURSIVE ReplaceAll(_, _)
\* strings.ReplaceAll(s, old, "")
ReplaceAll(s, old) ==
  LET i == Index(s, old)
  IN IF i < 0 THEN s ELSE Upto(s, i) \o ReplaceAll(From(s, i + Len(old)), old)

TokBeginRSA == B(<<"B", "E", "G", "I", "N", "R", "S", "A", "P", "R", "I", "V", "A", "T", "E", "K", "E", "Y">>)

TokEndRSA == B(<<"E", "N", "D", "R", "S", "A", "P", "R", "I", "V", "A", "T", "E", "K", "E", "Y">>)

TokBegin == B(<<"B", "E", "G", "I", "N", "P", "R", "I", "V", "A", "T", "E", "K", "E", "Y">>)

TokEnd == B(<<"E", "N", "D", "P", "R", "I", "V", "A", "T", "E", "K", "E", "Y">>)

\* cleanKey: the environment key without the characters and the header words
\* the server removes
CleanKey(rawKey) ==
  ReplaceAll(ReplaceAll(ReplaceAll(ReplaceAll(SelectSeq(rawKey, KeepKeyChar),
    TokBeginRSA), TokEndRSA), TokBegin), TokEnd)

\* builder.String(): cleanKey in lines of WrapLen between the RSA header and footer
Rebuild(rawKey) ==
  Tail(pemStart) \o TypeRSA \o pemEndOfLine \o <<NL>>
    \o WrapLines(CleanKey(rawKey))
    \o Tail(pemEnd) \o TypeRSA \o pemEndOfLine

\* the server's block: pem.Decode, and for an environment key that does not
\* decode, pem.Decode of the rebuilt text; a file that does not decode is an error
ServerBlock(rawKey, source) ==
  LET b == Decode(rawKey)
  IN IF b.ok THEN [block |-> b, rebuilt |-> FALSE, err |-> ""]
     ELSE IF source = "file" THEN [block |-> NoBlock, rebuilt |-> FALSE, err |-> "ErrFileFormat"]
     ELSE LET b2 == Decode(Rebuild(rawKey))
          IN [block |-> b2, rebuilt |-> TRUE, err |-> IF b2.ok THEN "" ELSE "ErrKeyParse"]

\* the server's key: PKCS#1, else PKCS#8 holding an RSA key
ServerParseKey(der) ==
  LET k1 == ParsePKCS1PrivateKey(der)
      k8 == ParsePKCS8PrivateKey(der)
  IN IF k1.ok THEN [key |-> k1.key, err |-> ""]
     ELSE IF ~k8.ok THEN [key |-> NoKey.key, err |-> "ErrKeyFormat"]
     ELSE IF k8.key.alg = RSA THEN [key |-> k8.key, err |-> ""]
     ELSE [key |-> NoKey.key, err |-> "ErrNotRSA"]

\* the command line tool's key: PKCS#1 only
CliParseKey(der) ==
  LET k1 == ParsePKCS1PrivateKey(der)
  IN IF k1.ok THEN [key |-> k1.key, err |-> ""] ELSE [key |-> NoKey.key, err |-> "ErrKeyParse"]

\* the server's location: the named zone, the fixed zone when it cannot be loaded
ServerLoc(tz) == IF tz THEN [loc |-> Shanghai, err |-> ""] ELSE [loc |-> CST, err |-> ""]

\* the command line tool's location: the named zone or an error
CliLoc(tz) == IF tz THEN [loc |-> Shanghai, err |-> ""] ELSE [loc |-> "", err |-> "ErrTimezone"]

\* t.Add(24*time.Hour - time.Second)
EndOfDay(tt) == tt + (24 * Hour - Second)

\* ServerLimit without the added day
ServerLimitNoGrace(n, l) == AddDate(n, 0, 1, 0, l)

\* maxAllowed.Add(24 * time.Hour), maxAllowed := now.AddDate(0, 1, 0)
ServerLimit(n, l) == AddDate(n, 0, 1, 0, l) + 24 * Hour

\* ServerPolicyOK comparing the expiry instant instead of the start of the day
ServerPolicyOKAtExpiry(tt, n, l) == ~(EndOfDay(tt) > AddDate(n, 0, 1, 0, l) + 24 * Hour)

\* the server's policy: t.After(maxAllowed.Add(24h)) is an error
ServerPolicyOK(tt, n, l) == ~(tt > ServerLimit(n, l))

\* the command line tool's policy: endOfDay.Before(time.Now()) is an error
CliPolicyOKStartOfDay(tt, n) == ~(tt < n)

CliPolicyOK(tt, n) == ~(EndOfDay(tt) < n)

\* LicenseData{MachineID: machineID, ExpiryUTC: expiryUTC}
LicenseData(mid, exp) == [machine_id |-> mid, expiry_utc |-> exp]

\* the digest the signature is made over
Hashed(dataJSON) == Sha256(dataJSON)

\* License{Data: base64(dataJSON), Signature: base64(signature)}
License(dataJSON, sig) ==
  [data |-> EncodeToString(dataJSON), signature |-> EncodeToString(sig)]

\* base64(gzip(json.Marshal(license)))
TokenOf(l) == EncodeToString(Gzip(MarshalLicense(l)))

IsSpace(c) == c \in {9, 10, 11, 12, 13, 32}

RECURSIVE TrimLeft(_)
TrimLeft(s) == IF s # << >> /\ IsSpace(s[1]) THEN TrimLeft(Tail(s)) ELSE s

RECURSIVE TrimRightSpace(_)
TrimRightSpace(s) ==
  IF s # << >> /\ IsSpace(s[Len(s)]) THEN TrimRightSpace(Upto(s, Len(s) - 1)) ELSE s

\* strings.TrimSpace
TrimSpace(s) == TrimRightSpace(TrimLeft(s))

\* the shortest machine code the command line tool accepts
MinMachineIDLen == 10

(***************************************************************************)
(* The inputs a call can meet                                              *)
(***************************************************************************)

TypePKCS8 == B(<<"P", "R", "I", "V", "A", "T", "E", " ", "K", "E", "Y">>)

\* handleSetup and handleGenerateKeys write the key in this form
PemPKCS1(k) == EncodeToMemory(TypeRSA, MarshalPKCS1PrivateKey(k))

PemPKCS8(k) == EncodeToMemory(TypePKCS8, MarshalPKCS8PrivateKey(k))

NotNLSP(c) == c # NL /\ c # SP

\* a PEM text whose newlines and header spacing were stripped
Stripped(pem) == SelectSeq(pem, NotNLSP)

\* a PEM text whose newlines became spaces
Spaced(pem) == TrimRight([i \in 1..Len(pem) |-> IF pem[i] = NL THEN SP ELSE pem[i]])

\* the base64 payload of a key alone, with no framing
BareBody(k) == EncodeToString(MarshalPKCS1PrivateKey(k))

IdPlain == B(<<"P", "C", "-", "7", "F", "3", "A", "-", "0", "0", "0", "1">>)

IdShort == B(<<"M", "-", "1">>)

IdHtml == B(<<"I", "D", "<", "A", "&", "B", ">", "-", "0", "0", "0", "2">>)

\* a machine code typed in a legacy code page: its first byte is no UTF-8
IdLegacy == <<214>> \o IdPlain

\* machine_id of a decoded request body (json.Decoder yields valid UTF-8 only)
ServerMachineIDs == {<< >>, IdShort, IdHtml}

\* what reader.ReadString('\n') returns for the machine code: the line and the error
CliIdLines ==
  { [line |-> <<NL>>, eof |-> FALSE],
    [line |-> <<SP, SP, CR, NL>>, eof |-> FALSE],
    [line |-> IdShort \o <<NL>>, eof |-> FALSE],
    [line |-> <<SP>> \o IdPlain \o <<CR, NL>>, eof |-> FALSE],
    [line |-> IdHtml \o <<NL>>, eof |-> FALSE],
    [line |-> IdLegacy \o <<NL>>, eof |-> FALSE],
    [line |-> IdPlain, eof |-> TRUE] }

\* the calendar days (UTC+8) on which calls are made
NowDays ==
  { [year |-> 2025, month |-> 1, day |-> 1],
    [year |-> 2025, month |-> 1, day |-> 31],
    [year |-> 2024, month |-> 1, day |-> 31] }

\* the times of day at which calls are made
NowTimes == {0, 12 * Hour, 24 * Hour - Second}

\* time.Now(): the clock of the present day runs on UTC+8 wall time
Nows == {Date(d.year, d.month, d.day, s, CST) : d \in NowDays, s \in NowTimes}

\* expiry dates are tried up to this many days past "one month from today"
MaxDayOffset == 2

\* the civil date d + months + days, normalised as time.Date normalises it
CivilPlus(d, months, days) ==
  LET y == d.year + ((d.month + months - 1) \div 12)
      m == ((d.month + months - 1) % 12) + 1
  IN CivilFromDays(DaysFromCivil(y, m, d.day + days))

CivilText(c) == DateText(c.year, c.month, c.day)

GoodDates ==
  {CivilText(CivilPlus(d, 1, k)) : d \in NowDays, k \in 1..MaxDayOffset}
    \cup {CivilText(d) : d \in NowDays}
    \cup {DateText(2025, 6, 15), DateText(1988, 7, 1)}

BadDates == {DateText(2025, 2, 30), B(<<"2", "0", "2", "5", "/", "0", "2", "/", "0", "1">>), B(<<"2", "0", "2", "5", "-", "2", "-", "1">>)}

\* expiry of a decoded request body
ServerDates == GoodDates \cup BadDates \cup {<< >>}

\* what reader.ReadString('\n') returns for the expiry date
CliDateLines ==
  {[line |-> d \o <<NL>>, eof |-> FALSE] : d \in GoodDates \cup BadDates}
    \cup {[line |-> DateText(2025, 6, 15), eof |-> TRUE]}

\* keygen-keys/private.pem or private.pem as a call finds it
KeyFiles ==
  { Absent, Unreadable, Readable(<< >>), Readable(BareBody(KeyOf(1))),
    Readable(PemPKCS1(KeyOf(1))), Readable(PemPKCS8(KeyOf(1))),
    Readable(PemPKCS1(KeyOf(2))), Readable(PemPKCS8(KeyOf(3))) }

\* PRIVATE_KEY as a call finds it; empty when unset
EnvKeys ==
  { << >>, PemPKCS1(KeyOf(1)), Stripped(PemPKCS1(KeyOf(1))), Spaced(PemPKCS1(KeyOf(1))),
    BareBody(KeyOf(1)) }

(***************************************************************************)
(* One issuance call, step by step: generateLicenseCore on the server and  *)
(* handleIssueLicense on the command line                                  *)
(***************************************************************************)

VARIABLES
  path,        \* "server" or "cli"
  pc,          \* the step the call is at; "done" and "failed" end it
  err,         \* the error the call ended with, "" if none
  steps,       \* the steps executed so far, in order
  machineID, expiryStr,
  file, env, tzdb, now,     \* what the call found: key file, PRIVATE_KEY, zone database, clock
  rawKey, source, rebuilt, block, privKey,
  loc, t, expiryUTC, dataJSON, signature, token,
  reqs, historyList, machineList, mutex,  \* the server's requests and ledgers
  pubFile      \* public.pem beside the server's private.pem

coreVars ==
  <<path, pc, err, steps, machineID, expiryStr, file, env, tzdb, now, rawKey, source,
    rebuilt, block, privKey, loc, t, expiryUTC, dataJSON, signature, token>>

ledgerVars == <<reqs, historyList, machineList, mutex, pubFile>>

vars == <<coreVars, ledgerVars>>

Paths == {"server", "cli"}

\* ServerOrder with the key read before the arguments are checked
ServerOrderKeyFirst ==
  <<"readKey", "args", "pemDecode", "parseKey", "loadTZ", "parseDate", "policy",
    "payload", "sign", "encode">>

\* the statements of generateLicenseCore, in order
ServerOrder ==
  <<"args", "readKey", "pemDecode", "parseKey", "loadTZ", "parseDate", "policy",
    "payload", "sign", "encode">>

\* the statements of handleIssueLicense, in order
CliOrder ==
  <<"stat", "readID", "readDate", "loadTZ", "parseDate", "policy", "payload",
    "readKey", "pemDecode", "parseKey", "sign", "encode">>

Order(p) == IF p = "server" THEN ServerOrder ELSE CliOrder

\* the step after step s on path p
NextPc(p, s) ==
  LET o == Order(p)
      i == CHOOSE j \in DOMAIN o : o[j] = s
  IN IF i = Len(o) THEN "done" ELSE o[i + 1]

NoLedger ==
  /\ reqs = << >>
  /\ historyList = << >>
  /\ machineList = << >>
  /\ mutex = 0
  /\ pubFile = Absent

\* a call before its first statement
CoreIdle ==
  /\ err = ""
  /\ steps = << >>
  /\ machineID = << >>
  /\ expiryStr = << >>
  /\ file = Absent
  /\ env = << >>
  /\ tzdb = TRUE
  /\ now = 0
  /\ rawKey = << >>
  /\ source = ""
  /\ rebuilt = FALSE
  /\ block = NoBlock
  /\ privKey = NoKey.key
  /\ loc = ""
  /\ t = 0
  /\ expiryUTC = 0
  /\ dataJSON = << >>
  /\ signature = << >>
  /\ token = << >>

Init ==
  /\ path \in Paths
  /\ pc = Order(path)[1]
  /\ CoreIdle
  /\ NoLedger

\* Step with the error of the signing step dropped
StepDroppingSignError(s, e) ==
  /\ pc = s
  /\ steps' = Append(steps, s)
  /\ err' = IF s = "sign" THEN "" ELSE e
  /\ pc' = IF e = "" \/ s = "sign" THEN NextPc(path, s) ELSE "failed"
  /\ UNCHANGED <<path, ledgerVars>>

\* the call goes on to the next statement, or returns the error e
Step(s, e) ==
  /\ pc = s
  /\ steps' = Append(steps, s)
  /\ err' = e
  /\ pc' = IF e = "" THEN NextPc(path, s) ELSE "failed"
  /\ UNCHANGED <<path, ledgerVars>>

\* generateLicenseCore: if machineID == "" || expiryStr == "" { return error }
Args ==
  /\ path = "server"
  /\ \E m \in ServerMachineIDs, d \in ServerDates :
       /\ machineID' = m
       /\ expiryStr' = d
       /\ Step("args", IF m = << >> \/ d = << >> THEN "ErrEmpty" ELSE "")
  /\ UNCHANGED <<file, env, tzdb, now, rawKey, source, rebuilt, block, privKey, loc, t,
                 expiryUTC, dataJSON, signature, token>>

\* handleIssueLicense: os.Stat(privateKeyPath); os.IsNotExist(err) ends the call
Stat ==
  /\ path = "cli"
  /\ \E f \in KeyFiles :
       /\ file' = f
       /\ Step("stat", IF f.state = "absent" THEN "ErrNoKeyFile" ELSE "")
  /\ UNCHANGED <<machineID, expiryStr, env, tzdb, now, rawKey, source, rebuilt, block,
                 privKey, loc, t, expiryUTC, dataJSON, signature, token>>

\* handleIssueLicense: read and trim the machine code; empty and short codes end the call
ReadID ==
  /\ path = "cli"
  /\ \E l \in CliIdLines :
       LET m == IF l.eof THEN l.line ELSE TrimSpace(l.line)
       IN /\ machineID' = m
          /\ Step("readID",
                  IF l.eof THEN "ErrReadID"
                  ELSE IF m = << >> THEN "ErrEmptyID"
                  ELSE IF Len(m) < MinMachineIDLen THEN "ErrShortID" ELSE "")
  /\ UNCHANGED <<expiryStr, file, env, tzdb, now, rawKey, source, rebuilt, block, privKey,
                 loc, t, expiryUTC, dataJSON, signature, token>>

\* handleIssueLicense: read and trim the expiry date
ReadDate ==
  /\ path = "cli"
  /\ \E l \in CliDateLines :
       /\ expiryStr' = IF l.eof THEN l.line ELSE TrimSpace(l.line)
       /\ Step("readDate", IF l.eof THEN "ErrReadDate" ELSE "")
  /\ UNCHANGED <<machineID, file, env, tzdb, now, rawKey, source, rebuilt, block, privKey,
                 loc, t, expiryUTC, dataJSON, signature, token>>

\* the key material: the server prefers private.pem and falls back to PRIVATE_KEY,
\* the command line tool reads its key file
ReadKey ==
  /\ IF path = "server"
     THEN \E f \in KeyFiles, e \in EnvKeys :
            LET r == LoadRawKey(f, e)
            IN /\ file' = f
               /\ env' = e
               /\ rawKey' = r.rawKey
               /\ source' = r.source
               /\ Step("readKey", IF Len(r.rawKey) = 0 THEN "ErrNoKey" ELSE "")
     ELSE /\ rawKey' = file.bytes
          /\ source' = IF file.state = "readable" THEN "file" ELSE ""
          /\ Step("readKey", IF file.state = "readable" THEN "" ELSE "ErrReadKey")
          /\ UNCHANGED <<file, env>>
  /\ UNCHANGED <<machineID, expiryStr, tzdb, now, rebuilt, block, privKey, loc, t,
                 expiryUTC, dataJSON, signature, token>>

\* pem.Decode(rawKey); the server rebuilds an environment key that does not decode
PemDecode ==
  /\ IF path = "server"
     THEN LET r == ServerBlock(rawKey, source)
          IN /\ block' = r.block
             /\ rebuilt' = r.rebuilt
             /\ Step("pemDecode", r.err)
     ELSE LET b == Decode(rawKey)
          IN /\ block' = b
             /\ rebuilt' = FALSE
             /\ Step("pemDecode", IF b.ok THEN "" ELSE "ErrFileFormat")
  /\ UNCHANGED <<machineID, expiryStr, file, env, tzdb, now, rawKey, source, privKey, loc,
                 t, expiryUTC, dataJSON, signature, token>>

\* x509.ParsePKCS1PrivateKey, and on the server x509.ParsePKCS8PrivateKey
ParseKey ==
  /\ LET r == IF path = "server" THEN ServerParseKey(block.Bytes) ELSE CliParseKey(block.Bytes)
     IN /\ privKey' = r.key
        /\ Step("parseKey", r.err)
  /\ UNCHANGED <<machineID, expiryStr, file, env, tzdb, now, rawKey, source, rebuilt,
                 block, loc, t, expiryUTC, dataJSON, signature, token>>

\* time.LoadLocation("Asia/Shanghai")
LoadTZ ==
  /\ \E z \in BOOLEAN :
       LET r == IF path = "server" THEN ServerLoc(z) ELSE CliLoc(z)
       IN /\ tzdb' = z
          /\ loc' = r.loc
          /\ Step("loadTZ", r.err)
  /\ UNCHANGED <<machineID, expiryStr, file, env, now, rawKey, source, rebuilt, block,
                 privKey, t, expiryUTC, dataJSON, signature, token>>

\* time.ParseInLocation("2006-01-02", expiryStr, loc)
ParseDate ==
  /\ LET r == ParseInLocation(expiryStr, loc)
     IN /\ t' = r.t
        /\ Step("parseDate", IF r.ok THEN "" ELSE "ErrDateFormat")
  /\ UNCHANGED <<machineID, expiryStr, file, env, tzdb, now, rawKey, source, rebuilt,
                 block, privKey, loc, expiryUTC, dataJSON, signature, token>>

\* the expiry policy against time.Now(): the server's one-month limit, the command
\* line tool's not-in-the-past check (which also fixes expiryUTC)
Policy ==
  /\ \E n \in Nows :
       /\ now' = n
       /\ IF path = "server"
          THEN /\ Step("policy", IF ServerPolicyOK(t, n, loc) THEN "" ELSE "ErrExpiryLimit")
               /\ UNCHANGED expiryUTC
          ELSE /\ Step("policy", IF CliPolicyOK(t, n) THEN "" ELSE "ErrPast")
               /\ expiryUTC' = IF CliPolicyOK(t, n) THEN EndOfDay(t) ELSE expiryUTC
  /\ UNCHANGED <<machineID, expiryStr, file, env, tzdb, rawKey, source, rebuilt, block,
                 privKey, loc, t, dataJSON, signature, token>>

\* expiryUTC on the server, and json.Marshal(LicenseData{machineID, expiryUTC})
Payload ==
  /\ expiryUTC' = IF path = "server" THEN EndOfDay(t) ELSE expiryUTC
  /\ dataJSON' = MarshalLicenseData(LicenseData(machineID, expiryUTC'))
  /\ Step("payload", "")
  /\ UNCHANGED <<machineID, expiryStr, file, env, tzdb, now, rawKey, source, rebuilt,
                 block, privKey, loc, t, signature, token>>

\* sha256 of dataJSON and rsa.SignPKCS1v15
Sign ==
  /\ LET r == SignPKCS1v15(privKey, Hashed(dataJSON))
     IN /\ signature' = r.sig
        /\ Step("sign", IF r.ok THEN "" ELSE "ErrSign")
  /\ UNCHANGED <<machineID, expiryStr, file, env, tzdb, now, rawKey, source, rebuilt,
                 block, privKey, loc, t, expiryUTC, dataJSON, token>>

\* License, json.Marshal, gzip, base64: the token returned or printed
Encode ==
  /\ token' = TokenOf(License(dataJSON, signature))
  /\ Step("encode", "")
  /\ UNCHANGED <<machineID, expiryStr, file, env, tzdb, now, rawKey, source, rebuilt,
                 block, privKey, loc, t, expiryUTC, dataJSON, signature>>

Next ==
  \/ Args
  \/ Stat
  \/ ReadID
  \/ ReadDate
  \/ ReadKey
  \/ PemDecode
  \/ ParseKey
  \/ LoadTZ
  \/ ParseDate
  \/ Policy
  \/ Payload
  \/ Sign
  \/ Encode

Spec == Init /\ [][Next]_vars

(***************************************************************************)
(* Properties of one issuance call                                         *)
(***************************************************************************)

Did(s) == \E i \in DOMAIN steps : steps[i] = s

\* the inverse of the token pipeline: base64-decode, gunzip, parse License,
\* base64-decode data and signature, parse LicenseData
OpenData(l) == DecodeString(l.val.data)

OpenLicense(tok) == UnmarshalLicense(Gunzip(DecodeString(tok).bytes).bytes)

TokenOpens(tok) ==
  /\ DecodeString(tok).ok
  /\ Gunzip(DecodeString(tok).bytes).ok
  /\ OpenLicense(tok).ok
  /\ OpenData(OpenLicense(tok)).ok
  /\ DecodeString(OpenLicense(tok).val.signature).ok
  /\ UnmarshalLicenseData(OpenData(OpenLicense(tok)).bytes).ok

TokenData(tok) == UnmarshalLicenseData(OpenData(OpenLicense(tok)).bytes).val

TokenSigned(tok) == OpenData(OpenLicense(tok)).bytes

TokenSignature(tok) == DecodeString(OpenLicense(tok).val.signature).bytes

\* C1: every issued token opens by the inverse steps, its data is the base64 of
\* the bytes that were signed, the LicenseData read back equals the machine ID
\* and expiry the call signed, and the signature verifies under the public half
\* of the loaded key.
C1_RoundTrip ==
  pc = "done" =>
    /\ TokenOpens(token)
    /\ TokenSigned(token) = dataJSON
    /\ TokenData(token) = LicenseData(machineID, expiryUTC)
    /\ VerifyPKCS1v15(privKey.id, Sha256(TokenSigned(token)), TokenSignature(token))

\* 23:59:59 of the civil day written in s, in UTC+8, as Unix seconds
EndOfDayUTC8(s) ==
  DaysFromCivil(Num(s, 1, 4), Num(s, 6, 7), Num(s, 9, 10)) * SecondsPerDay
    + (24 * Hour - Second) - 8 * Hour

\* C2: on both paths the expiry_utc signed for an accepted date is the epoch
\* second of 23:59:59 of that day in UTC+8.
C2_EndOfDayUTC8 == Did("payload") => expiryUTC = EndOfDayUTC8(expiryStr)

\* C3 as stated: the server returns no token whose expiry_utc is later than
\* now + 1 calendar month + 24 hours, and rejects every request whose expiry
\* instant is.
C3_ExpiryWithinMonthAndDay ==
  (path = "server" /\ Did("policy") /\ EndOfDay(t) > AddDate(now, 0, 1, 0, loc) + 24 * Hour)
    => err = "ErrExpiryLimit"

\* C3 amended: the server rejects a request exactly when the start of the
\* requested day (00:00:00) is later than now + 1 calendar month + 24 hours, so
\* no token carries an expiry_utc later than now + 1 calendar month + 48 hours
\* - 1 second.
C3_StartWithinMonthAndDay ==
  (path = "server" /\ Did("policy")) =>
    /\ (err = "ErrExpiryLimit") <=> (t > AddDate(now, 0, 1, 0, loc) + 24 * Hour)
    /\ pc = "done" => expiryUTC <= AddDate(now, 0, 1, 0, loc) + 48 * Hour - Second

\* a token whose expiry lies past now + 1 month + 24 hours was issued
C3_Witness ==
  /\ path = "server"
  /\ pc = "done"
  /\ expiryUTC > AddDate(now, 0, 1, 0, loc) + 24 * Hour

\* the civil date written in a well-formed date text
TextDay(s) == DaysFromCivil(Num(s, 1, 4), Num(s, 6, 7), Num(s, 9, 10))

\* today's date in UTC+8, the date one month and k days after it
TodayPlus(k) ==
  LET c == CivilPlus(Civil(now, CST), 1, k)
  IN DaysFromCivil(c.year, c.month, c.day)

\* C4: with D the date of now in UTC+8, at any time of day, the server accepts
\* the expiry date D + 1 month + 1 day and rejects D + 1 month + 2 days with the
\* out-of-range error (month and day overflow carried as time.Date carries it).
C4_HorizonDates ==
  (path = "server" /\ Did("policy")) =>
    /\ TextDay(expiryStr) = TodayPlus(1) => (err # "ErrExpiryLimit" /\ (pc # "failed" \/ Did("payload")))
    /\ TextDay(expiryStr) = TodayPlus(2) => (pc = "failed" /\ err = "ErrExpiryLimit")

\* now is 2025-01-01 23:59:59 and a token for 2025-02-02 was issued
C4_Witness ==
  /\ path = "server"
  /\ pc = "done"
  /\ now = Date(2025, 1, 1, 24 * Hour - Second, CST)
  /\ expiryStr = DateText(2025, 2, 2)

\* C5: on both paths a call that cannot load Asia/Shanghai goes on with the
\* fixed +8:00 zone instead of ending with an error.
C5_TimezoneFallback ==
  (Did("loadTZ") /\ ~tzdb) => (loc = CST /\ err # "ErrTimezone")

StrippedKeys(k) == {Stripped(PemPKCS1(k)), Spaced(PemPKCS1(k))}

\* C6: a genuine RSA key supplied through the environment with its newlines
\* stripped (or turned into spaces) is rebuilt into a block holding exactly the
\* original payload, and the call goes on with that key.
C6_StrippedKeyRecovered ==
  \A k \in {KeyOf(1)} :
    (path = "server" /\ source = "env" /\ env \in StrippedKeys(k) /\ Did("pemDecode")) =>
      /\ block.ok
      /\ block.Bytes = MarshalPKCS1PrivateKey(k)
      /\ err = ""

\* C7: the environment key is the key material exactly when private.pem cannot
\* be read; a readable file is the only material considered: when it holds no
\* PEM block (or nothing) the call fails, PRIVATE_KEY is not used and nothing
\* is rebuilt.
C7_FilePrecedence ==
  (path = "server" /\ Did("readKey")) =>
    /\ (source # "file") <=> (file.state # "readable")
    /\ source = "file" => rawKey = file.bytes
    /\ source # "file" => rawKey = env
    /\ file.state = "readable" =>
         /\ ~rebuilt
         /\ block.ok => block = Decode(file.bytes)
         /\ (~Decode(file.bytes).ok /\ pc # "pemDecode") =>
              /\ pc = "failed"
              /\ err \in {"ErrNoKey", "ErrFileFormat"}
              /\ ~Did("parseKey")

\* a readable file that holds a bare payload, a well-formed key in PRIVATE_KEY:
\* the call has failed on the file
C7_Witness ==
  /\ path = "server"
  /\ file = Readable(BareBody(KeyOf(1)))
  /\ env = PemPKCS1(KeyOf(1))
  /\ pc = "failed"
  /\ err = "ErrFileFormat"

\* the steps that read or parse the key, hash or sign
KeySteps == {"readKey", "pemDecode", "parseKey", "payload", "sign", "encode"}

\* C8: on both paths a call whose machine ID is empty ends with an error and
\* never executes a step that reads or parses the key, hashes or signs.
C8_EmptyIDFailsFast ==
  ((Did("args") \/ Did("readID")) /\ machineID = << >>) =>
    /\ pc = "failed"
    /\ err \in {"ErrEmpty", "ErrEmptyID"}
    /\ \A i \in DOMAIN steps : steps[i] \notin KeySteps
    /\ rawKey = << >>
    /\ signature = << >>

\* the command line tool was given a blank machine code, with its key file in place
C8_Witness ==
  /\ path = "cli"
  /\ file = Readable(PemPKCS1(KeyOf(1)))
  /\ machineID = << >>
  /\ err = "ErrEmptyID"

\* the policy check of the path, from the instants
PolicyHolds == IF path = "server" THEN t <= ServerLimit(now, loc) ELSE EndOfDay(t) >= now

\* the key material could not be obtained: no readable file and no environment
\* key on the server, a failed read of the key file on the command line
KeyReadFails == IF path = "server" THEN rawKey = << >> ELSE file.state # "readable"

CoreErr(e) == [err |-> e, code |-> << >>]

CoreToken(js, s) ==
  IF ~s.ok THEN CoreErr("ErrSign")
  ELSE [err |-> "", code |-> TokenOf(License(js, s.sig))]

CoreSigned(key, js) == CoreToken(js, SignPKCS1v15(key, Hashed(js)))

CoreWithDate(mid, key, d, l, n) ==
  IF ~d.ok THEN CoreErr("ErrDateFormat")
  ELSE IF ~ServerPolicyOK(d.t, n, l) THEN CoreErr("ErrExpiryLimit")
  ELSE CoreSigned(key, MarshalLicenseData(LicenseData(mid, EndOfDay(d.t))))

CoreWithKey(mid, exp, k, l, n) ==
  IF k.err # "" THEN CoreErr(k.err)
  ELSE CoreWithDate(mid, k.key, ParseInLocation(exp, l), l, n)

CoreWithBlock(mid, exp, b, z, n) ==
  IF b.err # "" THEN CoreErr(b.err)
  ELSE CoreWithKey(mid, exp, ServerParseKey(b.block.Bytes), ServerLoc(z).loc, n)

CoreWithRaw(mid, exp, r, z, n) ==
  IF Len(r.rawKey) = 0 THEN CoreErr("ErrNoKey")
  ELSE CoreWithBlock(mid, exp, ServerBlock(r.rawKey, r.source), z, n)

\* generateLicenseCore(machineID, expiryStr) as one function of its arguments and
\* of what it finds: key file f, PRIVATE_KEY e, zone database z, clock n
generateLicenseCore(mid, exp, f, e, z, n) ==
  IF mid = << >> \/ exp = << >> THEN CoreErr("ErrEmpty")
  ELSE CoreWithRaw(mid, exp, LoadRawKey(f, e), z, n)

\* SECURITY_TOKEN, "123456" unless the environment sets it
SecurityToken == B(<<"1", "2", "3", "4", "5", "6">>)

WrongToken == B(<<"l", "e", "t", "m", "e", "i", "n">>)

\* the machine code of request r: the requests differ in their last character
MachineOf(r) == Upto(IdPlain, Len(IdPlain) - 1) \o <<48 + r>>

\* the day and the instant the requests are served
ServeDay == [year |-> 2025, month |-> 1, day |-> 31]

ServeNows == {Date(ServeDay.year, ServeDay.month, ServeDay.day, s, CST) : s \in {0, 24 * Hour - Second}}

\* the expiry dates the requests ask for: within the server's limit, and past it
AcceptedDates == {CivilText(CivilPlus(ServeDay, 0, 7)), CivilText(CivilPlus(ServeDay, 1, 1))}

ReqDates == AcceptedDates \cup {CivilText(CivilPlus(ServeDay, 1, 2))}

\* what the server runs with: private.pem, no PRIVATE_KEY, the zone database
ServeFile == Readable(PemPKCS1(KeyOf(1)))

ServeEnv == << >>

ServeTZ == TRUE

OldRecord ==
  [GenerateTime |-> Civil(Date(2025, 1, 1, 0, CST), Shanghai), MachineID |-> IdShort,
   ExpiryDate |-> DateText(2025, 1, 15), LicenseCode |-> << >>]

OldMachine == [MachineID |-> IdShort, LastSeen |-> Civil(Date(2025, 1, 1, 0, CST), Shanghai)]

IdleReq ==
  [pc |-> "start", Token |-> << >>, MachineID |-> << >>, Expiry |-> << >>, code |-> << >>,
   nowStr |-> Civil(0, CST), hist |-> << >>, status |-> 0, body |-> << >>]

InitServer ==
  /\ path = "server"
  /\ pc = "idle"
  /\ CoreIdle
  /\ reqs = [r \in Reqs |-> IdleReq]
  /\ \/ historyList = << >> /\ machineList = << >>
     \/ historyList = <<OldRecord>> /\ machineList = <<OldMachine>>
  /\ mutex = 0
  /\ pubFile = Absent

\* mutex.Lock() returns to r when no request holds the mutex
CanLockAlways(r) == TRUE

CanLock(r) == mutex = 0

\* handleAPI up to the token check: 403 unless req.Token == SecurityToken
Receive(r) ==
  /\ reqs[r].pc = "start"
  /\ \E tok \in {SecurityToken, WrongToken}, d \in ReqDates :
       reqs' = [reqs EXCEPT ![r] =
                  [@ EXCEPT !.Token = tok, !.MachineID = MachineOf(r), !.Expiry = d,
                            !.pc = IF tok = SecurityToken THEN "generate" ELSE "done",
                            !.status = IF tok = SecurityToken THEN 0 ELSE 403]]
  /\ UNCHANGED <<coreVars, pubFile, historyList, machineList, mutex>>

\* code, err := generateLicenseCore(req.MachineID, req.Expiry); 500 on error
Generate(r) ==
  /\ reqs[r].pc = "generate"
  /\ \E n \in ServeNows :
       LET g == generateLicenseCore(reqs[r].MachineID, reqs[r].Expiry, ServeFile, ServeEnv, ServeTZ, n)
       IN reqs' = [reqs EXCEPT ![r] =
                     [@ EXCEPT !.code = g.code,
                               !.pc = IF g.err = "" THEN "lock" ELSE "done",
                               !.status = IF g.err = "" THEN 0 ELSE 500]]
  /\ UNCHANGED <<coreVars, pubFile, historyList, machineList, mutex>>

\* saveData: mutex.Lock(), nowStr := time.Now().Format(...)
Lock(r) ==
  /\ reqs[r].pc = "lock"
  /\ CanLock(r)
  /\ mutex' = r
  /\ \E n \in ServeNows :
       reqs' = [reqs EXCEPT ![r] = [@ EXCEPT !.pc = "readHist", !.nowStr = Civil(n, Shanghai)]]
  /\ UNCHANGED <<coreVars, pubFile, historyList, machineList>>

\* saveData: append reads the slice historyList ...
ReadHist(r) ==
  /\ reqs[r].pc = "readHist"
  /\ reqs' = [reqs EXCEPT ![r] = [@ EXCEPT !.pc = "writeHist", !.hist = historyList]]
  /\ UNCHANGED <<coreVars, pubFile, historyList, machineList, mutex>>

\* ... and historyList is assigned the slice with the new record at its end
WriteHist(r) ==
  /\ reqs[r].pc = "writeHist"
  /\ historyList' =
       Append(reqs[r].hist,
              [GenerateTime |-> reqs[r].nowStr, MachineID |-> reqs[r].MachineID,
               ExpiryDate |-> reqs[r].Expiry, LicenseCode |-> reqs[r].code])
  /\ reqs' = [reqs EXCEPT ![r] = [@ EXCEPT !.pc = "machines", !.hist = << >>]]
  /\ UNCHANGED <<coreVars, pubFile, machineList, mutex>>

\* saveData: the machine's LastSeen is updated, or the machine is appended
Machines(r) ==
  /\ reqs[r].pc = "machines"
  /\ LET found == {i \in DOMAIN machineList : machineList[i].MachineID = reqs[r].MachineID}
     IN machineList' =
          IF found = {}
          THEN Append(machineList, [MachineID |-> reqs[r].MachineID, LastSeen |-> reqs[r].nowStr])
          ELSE [machineList EXCEPT ![CHOOSE i \in found : \A j \in found : i <= j].LastSeen =
                                     reqs[r].nowStr]
  /\ reqs' = [reqs EXCEPT ![r] = [@ EXCEPT !.pc = "unlock"]]
  /\ UNCHANGED <<coreVars, pubFile, historyList, mutex>>

\* saveData returns: the deferred mutex.Unlock()
Unlock(r) ==
  /\ reqs[r].pc = "unlock"
  /\ mutex' = 0
  /\ reqs' = [reqs EXCEPT ![r] = [@ EXCEPT !.pc = "respond"]]
  /\ UNCHANGED <<coreVars, pubFile, historyList, machineList>>

\* handleAPI: w.Write([]byte(code))
Respond(r) ==
  /\ reqs[r].pc = "respond"
  /\ reqs' = [reqs EXCEPT ![r] = [@ EXCEPT !.pc = "done", !.status = 200, !.body = reqs[r].code]]
  /\ UNCHANGED <<coreVars, pubFile, historyList, machineList, mutex>>

NextServer ==
  \E r \in Reqs :
    \/ Receive(r)
    \/ Generate(r)
    \/ Lock(r)
    \/ ReadHist(r)
    \/ WriteHist(r)
    \/ Machines(r)
    \/ Unlock(r)
    \/ Respond(r)

SpecServer == InitServer /\ [][NextServer]_vars

\* the history records saved for the machine code of request r
RecordsOf(r) == {i \in DOMAIN historyList : historyList[i].MachineID = reqs[r].MachineID}

\* request r carried the right token and a date the server accepts
Valid(r) == reqs[r].Token = SecurityToken /\ reqs[r].Expiry \in AcceptedDates

\* a token opened by the inverse steps, each step taken once
Opened(tok) ==
  LET b == DecodeString(tok)
      z == Gunzip(b.bytes)
      l == UnmarshalLicense(z.bytes)
      d == DecodeString(l.val.data)
      g == DecodeString(l.val.signature)
      v == UnmarshalLicenseData(d.bytes)
  IN IF b.ok /\ z.ok /\ l.ok /\ d.ok /\ g.ok /\ v.ok
     THEN [ok |-> TRUE, data |-> v.val, signed |-> d.bytes, signature |-> g.bytes]
     ELSE [ok |-> FALSE, data |-> LicenseData(<< >>, 0), signed |-> << >>, signature |-> << >>]

\* C10: under every interleaving of the concurrent /api/generate requests (distinct
\* machine codes, valid key), every request with the right token and an accepted
\* date is answered 200 with a token that opens to its own machine code and the
\* end of its own expiry day, signed by the server's key; the history holds exactly
\* one record for it, pairing its machine code, its date and the token it was
\* sent; and the mutex is only ever held by a request that is inside saveData.
C10_ConcurrentRequests ==
  /\ mutex # 0 => reqs[mutex].pc \in {"readHist", "writeHist", "machines", "unlock"}
  /\ \A r \in Reqs :
       (reqs[r].pc = "done" /\ Valid(r)) =>
         /\ reqs[r].status = 200
         /\ LET o == Opened(reqs[r].body)
            IN /\ o.ok
               /\ o.data = LicenseData(MachineOf(r), EndOfDayUTC8(reqs[r].Expiry))
               /\ VerifyPKCS1v15(1, Sha256(o.signed), o.signature)
         /\ Cardinality(RecordsOf(r)) = 1
         /\ \A i \in RecordsOf(r) :
              /\ historyList[i].ExpiryDate = reqs[r].Expiry
              /\ historyList[i].LicenseCode = reqs[r].body

\* two requests with different dates both answered, the second saved first
C10_Witness ==
  /\ \A r \in Reqs : reqs[r].pc = "done" /\ reqs[r].status = 200
  /\ reqs[1].Expiry # reqs[2].Expiry
  /\ Len(historyList) = NumReq + 1
  /\ historyList[2].MachineID = MachineOf(2)
  /\ historyList[3].MachineID = MachineOf(1)

\* the civil day of now in UTC+8
Today == DaysFromCivil(Civil(now, CST).year, Civil(now, CST).month, Civil(now, CST).day)

callVars ==
  <<path, pc, err, steps, machineID, expiryStr, env, tzdb, now, rawKey, source, rebuilt,
    block, privKey, loc, t, expiryUTC, dataJSON, signature, token>>

\* privPem and pubPem of handleSetup for the generated key priv
PrivPem(priv) == EncodeToMemory(TypeRSA, MarshalPKCS1PrivateKey(priv))

PubPem(priv) == EncodeToMemory(TypePublic, MarshalPKIXPublicKey(priv))

KeyPrivateKey == B(<<"{", "dquote", "p", "r", "i", "v", "a", "t", "e", "_", "k", "e", "y", "dquote", ":">>)

KeyPublicKey == B(<<",", "dquote", "p", "u", "b", "l", "i", "c", "_", "k", "e", "y", "dquote", ":">>)

\* json.NewEncoder(w).Encode(map[string]string{"private_key": ..., "public_key": ...})
SetupBody(priv) ==
  KeyPrivateKey \o QUOTE \o EscapeString(PrivPem(priv)) \o QUOTE
    \o KeyPublicKey \o QUOTE \o EscapeString(PubPem(priv)) \o QUOTE \o <<125, NL>>

\* a request before its handler runs; route names the handler that takes it
IdleAny ==
  [pc |-> "start", route |-> "", Token |-> << >>, MachineID |-> << >>, Expiry |-> << >>,
   code |-> << >>, nowStr |-> Civil(0, CST), hist |-> << >>, status |-> 0, body |-> << >>,
   priv |-> NoKey.key, No |-> 0, page |-> 0, rows |-> << >>]

\* the server with the key pair of an earlier setup in private.pem and public.pem
InitSetup ==
  /\ path = "server"
  /\ pc = "idle"
  /\ err = ""
  /\ steps = << >>
  /\ machineID = << >>
  /\ expiryStr = << >>
  /\ file = Readable(PrivPem(KeyOf(1)))
  /\ env = << >>
  /\ tzdb = TRUE
  /\ now = 0
  /\ rawKey = << >>
  /\ source = ""
  /\ rebuilt = FALSE
  /\ block = NoBlock
  /\ privKey = NoKey.key
  /\ loc = ""
  /\ t = 0
  /\ expiryUTC = 0
  /\ dataJSON = << >>
  /\ signature = << >>
  /\ token = << >>
  /\ reqs = [r \in Reqs |-> IdleAny]
  /\ historyList = << >>
  /\ machineList = << >>
  /\ mutex = 0
  /\ pubFile = Readable(PubPem(KeyOf(1)))

\* handleSetup: POST goes on to make a key pair, any other method gets the page;
\* the request's token, if it carries one, is not looked at
SetupReceive(r) ==
  /\ reqs[r].pc = "start"
  /\ \E method \in {"POST", "GET"}, tok \in {SecurityToken, << >>} :
       reqs' = [reqs EXCEPT ![r] =
                  [@ EXCEPT !.route = "/setup", !.Token = tok,
                            !.pc = IF method = "POST" THEN "genKey" ELSE "done",
                            !.status = IF method = "POST" THEN 0 ELSE 200]]
  /\ UNCHANGED <<coreVars, pubFile, historyList, machineList, mutex>>

\* priv, _ := rsa.GenerateKey(rand.Reader, 2048), and the two PEM texts
SetupGenKey(r) ==
  /\ reqs[r].pc = "genKey"
  /\ reqs' = [reqs EXCEPT ![r] = [@ EXCEPT !.priv = GenerateKey(r), !.pc = "truncPriv"]]
  /\ UNCHANGED <<coreVars, pubFile, historyList, machineList, mutex>>

\* os.WriteFile("private.pem", ...): the file is opened with O_TRUNC ...
SetupTruncPriv(r) ==
  /\ reqs[r].pc = "truncPriv"
  /\ file' = Readable(<< >>)
  /\ reqs' = [reqs EXCEPT ![r] = [@ EXCEPT !.pc = "writePriv"]]
  /\ UNCHANGED <<callVars, pubFile, historyList, machineList, mutex>>

\* ... and privPem is written to it
SetupWritePriv(r) ==
  /\ reqs[r].pc = "writePriv"
  /\ file' = Readable(PrivPem(reqs[r].priv))
  /\ reqs' = [reqs EXCEPT ![r] = [@ EXCEPT !.pc = "truncPub"]]
  /\ UNCHANGED <<callVars, pubFile, historyList, machineList, mutex>>

\* os.WriteFile("public.pem", ...): the file is opened with O_TRUNC ...
SetupTruncPub(r) ==
  /\ reqs[r].pc = "truncPub"
  /\ pubFile' = Readable(<< >>)
  /\ reqs' = [reqs EXCEPT ![r] = [@ EXCEPT !.pc = "writePub"]]
  /\ UNCHANGED <<coreVars, historyList, machineList, mutex>>

\* ... and pubPem is written to it
SetupWritePub(r) ==
  /\ reqs[r].pc = "writePub"
  /\ pubFile' = Readable(PubPem(reqs[r].priv))
  /\ reqs' = [reqs EXCEPT ![r] = [@ EXCEPT !.pc = "answer"]]
  /\ UNCHANGED <<coreVars, historyList, machineList, mutex>>

\* the answer of handleSetup: both PEM texts as JSON
SetupRespond(r) ==
  /\ reqs[r].pc = "answer"
  /\ reqs' = [reqs EXCEPT ![r] =
                [@ EXCEPT !.pc = "done", !.status = 200, !.body = SetupBody(reqs[r].priv)]]
  /\ UNCHANGED <<coreVars, pubFile, historyList, machineList, mutex>>

\* the date the requests of this specification ask for
SetupDate == CivilText(CivilPlus(ServeDay, 0, 7))

\* handleAPI up to the token check, for a request to /api/generate
ApiReceive(r) ==
  /\ reqs[r].pc = "start"
  /\ \E tok \in {SecurityToken, WrongToken} :
       reqs' = [reqs EXCEPT ![r] =
                  [@ EXCEPT !.route = "/api/generate", !.Token = tok,
                            !.MachineID = MachineOf(r), !.Expiry = SetupDate,
                            !.pc = IF tok = SecurityToken THEN "generate" ELSE "done",
                            !.status = IF tok = SecurityToken THEN 0 ELSE 403]]
  /\ UNCHANGED <<coreVars, pubFile, historyList, machineList, mutex>>

\* code, err := generateLicenseCore(...), with private.pem as it is at this moment
ApiGenerate(r) ==
  /\ reqs[r].pc = "generate"
  /\ \E n \in ServeNows :
       LET g == generateLicenseCore(reqs[r].MachineID, reqs[r].Expiry, file, ServeEnv, ServeTZ, n)
       IN reqs' = [reqs EXCEPT ![r] =
                     [@ EXCEPT !.code = g.code,
                               !.pc = IF g.err = "" THEN "lock" ELSE "done",
                               !.status = IF g.err = "" THEN 0 ELSE 500]]
  /\ UNCHANGED <<coreVars, pubFile, historyList, machineList, mutex>>

NextSetup ==
  \E r \in Reqs :
    \/ SetupReceive(r)
    \/ SetupGenKey(r)
    \/ SetupTruncPriv(r)
    \/ SetupWritePriv(r)
    \/ SetupTruncPub(r)
    \/ SetupWritePub(r)
    \/ SetupRespond(r)
    \/ ApiReceive(r)
    \/ ApiGenerate(r)
    \/ Lock(r)
    \/ ReadHist(r)
    \/ WriteHist(r)
    \/ Machines(r)
    \/ Unlock(r)
    \/ Respond(r)

SpecSetup == InitSetup /\ [][NextSetup]_vars

\* the key pair whose private half a PEM file holds, 0 if it holds none
PrivPair(f) ==
  IF f.state = "readable" /\ Decode(f.bytes).ok /\ ParsePKCS1PrivateKey(Decode(f.bytes).Bytes).ok
  THEN ParsePKCS1PrivateKey(Decode(f.bytes).Bytes).key.id
  ELSE 0

\* the key pair whose public half a PEM file holds, 0 if it holds none
PubPair(f) ==
  IF f.state = "readable" /\ Decode(f.bytes).ok
  THEN ParsePKIXPublicKey(Decode(f.bytes).Bytes)
  ELSE 0

SetupInProgress(r) ==
  reqs[r].pc \in {"genKey", "truncPriv", "writePriv", "truncPub", "writePub", "answer"}

\* the key pair a token's signature was made with
SignerOf(tok) == Opened(tok).signature[1]

\* C12: whenever no /setup request is in progress, private.pem and public.pem hold
\* the two halves of one key pair, so a license signed with the key now in
\* private.pem verifies under the key in public.pem.
C12_KeyFilesAgree ==
  (\A r \in Reqs : ~SetupInProgress(r)) =>
    /\ PrivPair(file) # 0
    /\ PrivPair(file) = PubPair(pubFile)
    /\ \A r \in Reqs :
         (reqs[r].pc = "done" /\ reqs[r].status = 200 /\ reqs[r].route = "/api/generate"
            /\ SignerOf(reqs[r].body) = PrivPair(file)) =>
           VerifyPKCS1v15(PubPair(pubFile), Sha256(Opened(reqs[r].body).signed),
                          Opened(reqs[r].body).signature)

(***************************************************************************)
(* The server: the ledger handlers beside /api/generate                    *)
(***************************************************************************)

PageSize == 20

\* the ledgers safeLoadData read from history.json and machines.json
LoadedHistory ==
  << [GenerateTime |-> Civil(Date(2025, 1, 1, 0, CST), Shanghai), MachineID |-> IdShort,
      ExpiryDate |-> DateText(2025, 1, 15), LicenseCode |-> B(<<"H", "4", "s", "I", "A", "A", "A", "A">>)],
     [GenerateTime |-> Civil(Date(2025, 1, 2, 0, CST), Shanghai), MachineID |-> IdHtml,
      ExpiryDate |-> DateText(2025, 1, 20), LicenseCode |-> B(<<"H", "4", "s", "I", "A", "A", "A", "B">>)],
     [GenerateTime |-> Civil(Date(2025, 1, 3, 0, CST), Shanghai), MachineID |-> IdShort,
      ExpiryDate |-> DateText(2025, 2, 1), LicenseCode |-> B(<<"H", "4", "s", "I", "A", "A", "A", "C">>)] >>

LoadedMachines ==
  << [MachineID |-> IdShort, LastSeen |-> Civil(Date(2025, 1, 3, 0, CST), Shanghai)],
     [MachineID |-> IdHtml, LastSeen |-> Civil(Date(2025, 1, 2, 0, CST), Shanghai)] >>

InitLedger ==
  /\ path = "server"
  /\ pc = "idle"
  /\ err = ""
  /\ steps = << >>
  /\ machineID = << >>
  /\ expiryStr = << >>
  /\ file = ServeFile
  /\ env = << >>
  /\ tzdb = TRUE
  /\ now = 0
  /\ rawKey = << >>
  /\ source = ""
  /\ rebuilt = FALSE
  /\ block = NoBlock
  /\ privKey = NoKey.key
  /\ loc = ""
  /\ t = 0
  /\ expiryUTC = 0
  /\ dataJSON = << >>
  /\ signature = << >>
  /\ token = << >>
  /\ reqs = [r \in Reqs |-> IdleAny]
  /\ historyList = LoadedHistory
  /\ machineList = LoadedMachines
  /\ mutex = 0
  /\ pubFile = Absent

\* a handler that goes on without taking the mutex
AcquireNothing(r) == mutex' = mutex

\* mutex.Lock() in a handler
Acquire(r) == CanLock(r) /\ mutex' = r

\* the rows handleHistory shows on a page: the number shown, and the record
DisplayRows(h, page) ==
  LET total == Len(h)
      startIndex == (page - 1) * PageSize
      endIndex == Min(startIndex + PageSize, total)
  IN [j \in 1..(IF endIndex > startIndex THEN endIndex - startIndex ELSE 0) |->
        [rowNum |-> startIndex + (j - 1) + 1, rec |-> h[(total - 1 - (startIndex + j - 1)) + 1]]]

\* the rows handleMachines shows: most recent first, numbered from 1
MachineRows(ms) == [j \in 1..Len(ms) |-> [rowNum |-> j, rec |-> ms[Len(ms) - j + 1]]]

\* DeleteHistoryAt removing the No-th record from the front
DeleteHistoryFromFront(h, No) == SubSeq(h, 1, No - 1) \o SubSeq(h, No + 1, Len(h))

\* append(historyList[:total-No], historyList[total-No+1:]...)
DeleteHistoryAt(h, No) == SubSeq(h, 1, Len(h) - No) \o SubSeq(h, Len(h) - No + 2, Len(h))

\* newMachines: machineList without the records of machine mid
WithoutMachine(ms, mid) == SelectSeq(ms, LAMBDA m : m.MachineID # mid)

\* handleHistory / handleMachines up to the token check (token of the query string)
ViewReceive(r) ==
  /\ reqs[r].pc = "start"
  /\ \E route \in {"/history", "/machines"}, tok \in {SecurityToken, WrongToken},
        page \in {1, 2} :
       /\ route = "/machines" => page = 1
       /\ reqs' = [reqs EXCEPT ![r] =
                     [@ EXCEPT !.route = route, !.Token = tok,
                               !.page = IF tok = SecurityToken THEN page ELSE 0,
                               !.pc = IF tok = SecurityToken THEN "viewLock" ELSE "done",
                               !.status = IF tok = SecurityToken THEN 0 ELSE 403]]
  /\ UNCHANGED <<coreVars, pubFile, historyList, machineList, mutex>>

ViewLock(r) ==
  /\ reqs[r].pc = "viewLock"
  /\ Acquire(r)
  /\ reqs' = [reqs EXCEPT ![r] = [@ EXCEPT !.pc = "viewRead"]]
  /\ UNCHANGED <<coreVars, pubFile, historyList, machineList>>

\* the loop over the ledger: displayRows of handleHistory, rowsHtml of handleMachines
ViewRead(r) ==
  /\ reqs[r].pc = "viewRead"
  /\ reqs' = [reqs EXCEPT ![r] =
                [@ EXCEPT !.pc = "viewUnlock",
                          !.rows = IF reqs[r].route = "/history"
                                   THEN DisplayRows(historyList, reqs[r].page)
                                   ELSE MachineRows(machineList)]]
  /\ UNCHANGED <<coreVars, pubFile, historyList, machineList, mutex>>

ViewUnlock(r) ==
  /\ reqs[r].pc = "viewUnlock"
  /\ mutex' = 0
  /\ reqs' = [reqs EXCEPT ![r] = [@ EXCEPT !.pc = "viewRespond"]]
  /\ UNCHANGED <<coreVars, pubFile, historyList, machineList>>

\* the page is written from the rows that were read
ViewRespond(r) ==
  /\ reqs[r].pc = "viewRespond"
  /\ reqs' = [reqs EXCEPT ![r] = [@ EXCEPT !.pc = "done", !.status = 200]]
  /\ UNCHANGED <<coreVars, pubFile, historyList, machineList, mutex>>

\* the numbers and machine codes the delete requests carry
DeleteNumbers == {0, 1, 2, 3, 4}

DeleteMachineIDs == {<< >>, IdShort, IdPlain}

\* handleDeleteHistory up to the token check
DeleteReceive(r) ==
  /\ reqs[r].pc = "start"
  /\ \E method \in {"POST", "GET"}, tok \in {SecurityToken, WrongToken}, k \in DeleteNumbers :
       /\ (method = "GET" \/ tok = WrongToken) => k = 1
       /\ method = "GET" => tok = SecurityToken
       /\ reqs' = [reqs EXCEPT ![r] =
                     [@ EXCEPT !.route = "/api/delete", !.Token = tok, !.No = k,
                               !.pc = IF method = "POST" /\ tok = SecurityToken
                                      THEN "deleteLock" ELSE "done",
                               !.status = IF method # "POST" THEN 405
                                          ELSE IF tok # SecurityToken THEN 403 ELSE 0]]
  /\ UNCHANGED <<coreVars, pubFile, historyList, machineList, mutex>>

DeleteLock(r) ==
  /\ reqs[r].pc = "deleteLock"
  /\ Acquire(r)
  /\ reqs' = [reqs EXCEPT ![r] = [@ EXCEPT !.pc = "deleteApply"]]
  /\ UNCHANGED <<coreVars, pubFile, historyList, machineList>>

\* total, the range check, the removal, and the answer
DeleteApply(r) ==
  /\ reqs[r].pc = "deleteApply"
  /\ IF reqs[r].No <= 0 \/ reqs[r].No > Len(historyList)
     THEN /\ historyList' = historyList
          /\ reqs' = [reqs EXCEPT ![r] = [@ EXCEPT !.pc = "deleteUnlock", !.status = 404]]
     ELSE /\ historyList' = DeleteHistoryAt(historyList, reqs[r].No)
          /\ reqs' = [reqs EXCEPT ![r] =
                        [@ EXCEPT !.pc = "deleteUnlock", !.status = 200,
                                  !.body = FormatInt(reqs[r].No)]]
  /\ UNCHANGED <<coreVars, pubFile, machineList, mutex>>

\* the deferred mutex.Unlock() of both delete handlers
DeleteUnlock(r) ==
  /\ reqs[r].pc = "deleteUnlock"
  /\ mutex' = 0
  /\ reqs' = [reqs EXCEPT ![r] = [@ EXCEPT !.pc = "done"]]
  /\ UNCHANGED <<coreVars, pubFile, historyList, machineList>>

\* handleDeleteMachine up to the check of the machine code
MachineDeleteReceive(r) ==
  /\ reqs[r].pc = "start"
  /\ \E tok \in {SecurityToken, WrongToken}, mid \in DeleteMachineIDs :
       /\ tok = WrongToken => mid = IdShort
       /\ reqs' = [reqs EXCEPT ![r] =
                     [@ EXCEPT !.route = "/api/machines/delete", !.Token = tok,
                               !.MachineID = mid,
                               !.pc = IF tok = SecurityToken /\ mid # << >>
                                      THEN "machineLock" ELSE "done",
                               !.status = IF tok # SecurityToken THEN 403
                                          ELSE IF mid = << >> THEN 400 ELSE 0]]
  /\ UNCHANGED <<coreVars, pubFile, historyList, machineList, mutex>>

MachineDeleteLock(r) ==
  /\ reqs[r].pc = "machineLock"
  /\ Acquire(r)
  /\ reqs' = [reqs EXCEPT ![r] = [@ EXCEPT !.pc = "machineApply"]]
  /\ UNCHANGED <<coreVars, pubFile, historyList, machineList>>

\* the scan for the machine code, and machineList = newMachines if it was found
MachineDeleteApply(r) ==
  /\ reqs[r].pc = "machineApply"
  /\ machineList' = WithoutMachine(machineList, reqs[r].MachineID)
  /\ reqs' = [reqs EXCEPT ![r] =
                [@ EXCEPT !.pc = "deleteUnlock",
                          !.status = IF machineList' = machineList THEN 404 ELSE 200]]
  /\ UNCHANGED <<coreVars, pubFile, historyList, mutex>>

NextLedger ==
  \E r \in Reqs :
    \/ ApiReceive(r)
    \/ ApiGenerate(r)
    \/ Lock(r)
    \/ ReadHist(r)
    \/ WriteHist(r)
    \/ Machines(r)
    \/ Unlock(r)
    \/ Respond(r)
    \/ ViewReceive(r)
    \/ ViewLock(r)
    \/ ViewRead(r)
    \/ ViewUnlock(r)
    \/ ViewRespond(r)
    \/ DeleteReceive(r)
    \/ DeleteLock(r)
    \/ DeleteApply(r)
    \/ DeleteUnlock(r)
    \/ MachineDeleteReceive(r)
    \/ MachineDeleteLock(r)
    \/ MachineDeleteApply(r)

SpecLedger == InitLedger /\ [][NextLedger]_vars

\* the record handleHistory shows as row number k of the ledger h
RowNumbered(h, k) ==
  LET rows == DisplayRows(h, ((k - 1) \div PageSize) + 1)
  IN rows[CHOOSE j \in DOMAIN rows : rows[j].rowNum = k].rec

\* request r takes the step of handleDeleteHistory that looks at the ledger
Deletes(r) == reqs[r].pc = "deleteApply" /\ reqs'[r].pc = "deleteUnlock"

\* C15: a delete request with the right token and a number k from 1 to the
\* length of the history removes exactly the record handleHistory shows as row k
\* of that ledger (the k-th most recently appended) and keeps every other record
\* in its order; with k <= 0 or k > length it answers 404 and changes nothing.
C15_DeleteByNumber ==
  [][\A r \in Reqs :
       Deletes(r) =>
         LET k == reqs[r].No
             n == Len(historyList)
         IN IF k >= 1 /\ k <= n
            THEN /\ reqs[r].Token = SecurityToken
                 /\ reqs'[r].status = 200
                 /\ Len(historyList') = n - 1
                 /\ historyList[n - k + 1] = RowNumbered(historyList, k)
                 /\ \A j \in 1..(n - 1) :
                      historyList'[j] = historyList[IF j < n - k + 1 THEN j ELSE j + 1]
                 /\ machineList' = machineList
            ELSE /\ reqs'[r].status = 404
                 /\ historyList' = historyList
                 /\ machineList' = machineList]_vars

\* row 2 of the three loaded records has been deleted
C15_Witness ==
  \E r \in Reqs :
    /\ reqs[r].route = "/api/delete"
    /\ reqs[r].pc = "done"
    /\ reqs[r].status = 200
    /\ reqs[r].No = 2
    /\ historyList = <<LoadedHistory[1], LoadedHistory[3]>>

\* request r is at a statement that reads or writes historyList or machineList
AtLedger(r) ==
  reqs[r].pc \in {"readHist", "writeHist", "machines", "viewRead", "deleteApply", "machineApply"}

C14_ChangesNeedToken ==
  [][(file' # file \/ pubFile' # pubFile \/ historyList' # historyList
        \/ machineList' # machineList) =>
       \E r \in Reqs : reqs'[r].pc # reqs[r].pc /\ reqs[r].Token = SecurityToken]_vars

====
